---- MODULE Spec2Model ----
(***************************************************************************)
(* Model of the command-line address book of src/main.py: the field        *)
(* validators (Phone, Birthday), Record, AddressBook, its pickle storage,  *)
(* the input_error decorator, the command handlers and the main loop.      *)
(*                                                                         *)
(* A Python str is modelled as a sequence of characters, each character a  *)
(* one-symbol string; the character U+00B2 (SUPERSCRIPT TWO) is written    *)
(* "U+00B2".  Python None for a stored date is the empty tuple NoDate.     *)
(***************************************************************************)
EXTENDS Integers, Sequences, FiniteSets, TLC

VARIABLES state, contacts, storage, last, record

vars == <<state, contacts, storage, last, record>>

----------------------------------------------------------------------------
(* Bounds of the model                                                     *)

MaxPhones == 3
MaxRecords == 3
MaxPageSize == 4

----------------------------------------------------------------------------
(* Python str helpers                                                      *)

UpperLetters == <<"A","B","C","D","E","F","G","H","I","J","K","L","M",
                  "N","O","P","Q","R","S","T","U","V","W","X","Y","Z">>
LowerLetters == <<"a","b","c","d","e","f","g","h","i","j","k","l","m",
                  "n","o","p","q","r","s","t","u","v","w","x","y","z">>

AsciiDigits == <<"0","1","2","3","4","5","6","7","8","9">>

\* Characters c outside 0-9 for which str.isdigit() is true (Unicode
\* Numeric_Type=Digit); U+00B2 is the one the inputs use.
OtherUnicodeDigits == {"U+00B2"}

Range(s) == {s[i] : i \in 1..Len(s)}

Repeat(c, n) == [i \in 1..n |-> c]

\* str.lower(), character by character
LowerChar(c) ==
    IF \E i \in 1..Len(UpperLetters) : UpperLetters[i] = c
    THEN LowerLetters[CHOOSE i \in 1..Len(UpperLetters) : UpperLetters[i] = c]
    ELSE c

Lower(s) == [i \in 1..Len(s) |-> LowerChar(s[i])]

\* str.startswith(prefix)
StartsWith(s, prefix) ==
    /\ Len(prefix) <= Len(s)
    /\ SubSeq(s, 1, Len(prefix)) = prefix

\* needle in hay
Contains(hay, needle) ==
    \E i \in 0..(Len(hay) - Len(needle)) : SubSeq(hay, i + 1, i + Len(needle)) = needle

\* str.isdigit(): non-empty and every character a digit
IsDigitChar(c) == c \in Range(AsciiDigits) \cup OtherUnicodeDigits

IsDigit(s) == Len(s) > 0 /\ \A i \in 1..Len(s) : IsDigitChar(s[i])

\* str.strip() (the inputs hold no whitespace but the space)
RECURSIVE LStrip(_)
LStrip(s) == IF s # <<>> /\ Head(s) = " " THEN LStrip(Tail(s)) ELSE s

RECURSIVE RStrip(_)
RStrip(s) == IF s # <<>> /\ s[Len(s)] = " " THEN RStrip(SubSeq(s, 1, Len(s) - 1)) ELSE s

Strip(s) == RStrip(LStrip(s))

\* sep.join(parts)
RECURSIVE Join(_, _)
Join(parts, sep) ==
    IF parts = <<>> THEN <<>>
    ELSE IF Len(parts) = 1 THEN parts[1]
    ELSE parts[1] \o sep \o Join(Tail(parts), sep)

----------------------------------------------------------------------------
(* Inputs                                                                  *)

W_hello == <<"h","e","l","l","o">>
W_add == <<"a","d","d">>
W_change == <<"c","h","a","n","g","e">>
W_phone == <<"p","h","o","n","e">>
W_find == <<"f","i","n","d">>
W_show == <<"s","h","o","w">>
W_all == <<"a","l","l">>
W_bye == <<"b","y","e">>
W_good == <<"g","o","o","d">>
W_close == <<"c","l","o","s","e">>
W_exit == <<"e","x","i","t">>

SP == <<" ">>

N_al == <<"a","l">>
N_bo == <<"b","o">>
N_cy == <<"c","y">>
N_di == <<"d","i">>

P_1 == <<"1","2","3","4","5","6","7","8","9","0">>
P_2 == <<"5","5","5","1","2","3","4","5","6","7">>
P_super == Repeat("U+00B2", 10)
P_short == <<"1","2","3","4","5","6","7","8","9">>
P_long == <<"1","2","3","4","5","6","7","8","9","0","1">>
P_alpha == <<"1","2","3","4","5","a","b","c","d","e">>

B_1990 == <<"1","9","9","0","-","0","5","-","0","1">>
B_leap == <<"2","0","0","0","-","0","2","-","2","9">>
B_month13 == <<"1","9","9","0","-","1","3","-","0","1">>

Names == {N_al, N_bo}

\* Phones and birthdays typed in add and change commands
AddPhones == {P_1, P_super, P_short, P_alpha}

ChangePhones == {P_2, P_short}

CmdBirthdays == {B_1990, B_month13}

\* Upper-casing of a word, as a user may type it
Caps(w) == [i \in 1..Len(w) |->
               IF \E j \in 1..Len(LowerLetters) : LowerLetters[j] = w[i]
               THEN UpperLetters[CHOOSE j \in 1..Len(LowerLetters) : LowerLetters[j] = w[i]]
               ELSE w[i]]

AddLines ==
    {Join(<<W_add, n, p>>, SP) : n \in Names, p \in AddPhones}
    \cup {Join(<<W_add, n, p, b>>, SP) : n \in Names, p \in AddPhones, b \in CmdBirthdays}
    \cup {W_add, Join(<<W_add, N_al>>, SP), Join(<<W_add, <<>>, P_1>>, SP),
          Join(<<Caps(W_add), N_bo, P_1>>, SP)}

ChangeLines ==
    {Join(<<W_change, n, p>>, SP) : n \in Names, p \in ChangePhones}
    \cup {Join(<<W_change, n, p, b>>, SP) : n \in Names, p \in ChangePhones, b \in CmdBirthdays}
    \cup {W_change, Join(<<W_change, N_al>>, SP), Join(<<W_change, N_al, P_2, <<>>>>, SP),
          Join(<<Caps(W_change), N_al, P_2>>, SP)}

PhoneLines == {Join(<<W_phone, N_al>>, SP), Join(<<W_phone, N_bo>>, SP), W_phone}

FindLines ==
    {Join(<<W_find, q>>, SP) : q \in {Caps(N_al), <<"5","5","5">>, <<"x">>, <<>>}}
    \cup {W_find}

OtherLines ==
    {W_hello, Caps(W_hello), Join(<<W_show, W_all>>, SP), Join(<<Caps(W_show), W_all>>, SP),
     <<>>, SP \o SP, <<"f","o","o">>, W_bye \o SP}

ExitWords == <<W_bye, Join(<<W_good, W_bye>>, SP), W_close, W_exit>>

ExitLines == Range(ExitWords) \cup {Caps(W_bye)}

Lines == AddLines \cup ChangeLines \cup PhoneLines \cup FindLines \cup OtherLines \cup ExitLines

\* s.split(' ', maxsplit); maxsplit = -1 splits at every space
RECURSIVE SplitFrom(_, _, _, _)
SplitFrom(s, maxsplit, i, word) ==
    IF i > Len(s) THEN <<word>>
    ELSE IF s[i] = " " /\ maxsplit # 0
    THEN <<word>> \o SplitFrom(s, IF maxsplit < 0 THEN maxsplit ELSE maxsplit - 1, i + 1, <<>>)
    ELSE SplitFrom(s, maxsplit, i + 1, Append(word, s[i]))

\* The splits of the input lines, tabulated once
SplitTable == [line \in Lines |-> [maxsplit \in {-1, 1, 3} |-> SplitFrom(line, maxsplit, 1, <<>>)]]

Split(s, maxsplit) == IF s \in Lines THEN SplitTable[s][maxsplit] ELSE SplitFrom(s, maxsplit, 1, <<>>)

----------------------------------------------------------------------------
(* Results of calls: a returned value or a raised exception                *)

Return(v) == [kind |-> "return", exc |-> "", msg |-> "", isNone |-> FALSE, val |-> v]
ReturnNone == [kind |-> "return", exc |-> "", msg |-> "", isNone |-> TRUE, val |-> <<>>]
ReturnMsg(m) == [kind |-> "return", exc |-> "", msg |-> m, isNone |-> FALSE, val |-> <<>>]
Raise(e, m) == [kind |-> "raise", exc |-> e, msg |-> m, isNone |-> FALSE, val |-> <<>>]

----------------------------------------------------------------------------
(* Phone                                                                   *)

PhoneLen == 10

\* Phone.value setter: the value stored, or the ValueError raised
PhoneSetter(new_value) ==
    IF Len(new_value) # PhoneLen
    THEN Raise("ValueError", "Phone number should be 10 digits long.")
    ELSE IF ~IsDigit(new_value)
    THEN Raise("ValueError", "Phone number should only include digits.")
    ELSE Return(new_value)

----------------------------------------------------------------------------
(* Dates (datetime.date) and Birthday                                      *)

NoDate == <<>>

IsLeap(y) == y % 4 = 0 /\ (y % 100 # 0 \/ y % 400 = 0)

DaysInMonth(y, m) ==
    IF m = 2 THEN (IF IsLeap(y) THEN 29 ELSE 28)
    ELSE IF m \in {4, 6, 9, 11} THEN 30 ELSE 31

ValidDate(y, m, d) ==
    /\ y >= 1 /\ y <= 9999   \* datetime.MINYEAR, datetime.MAXYEAR
    /\ m >= 1 /\ m <= 12
    /\ d >= 1 /\ d <= DaysInMonth(y, m)

DigitVal(c) == (CHOOSE i \in 1..Len(AsciiDigits) : AsciiDigits[i] = c) - 1

RECURSIVE IntOf(_)
IntOf(s) == IF s = <<>> THEN 0 ELSE 10 * IntOf(SubSeq(s, 1, Len(s) - 1)) + DigitVal(s[Len(s)])

AllAscii(s) == \A i \in 1..Len(s) : s[i] \in Range(AsciiDigits)

\* date.fromisoformat on a YYYY-MM-DD string
FromIsoFormat(s) ==
    IF /\ Len(s) = 10
       /\ s[5] = "-" /\ s[8] = "-"
       /\ AllAscii(SubSeq(s, 1, 4)) /\ AllAscii(SubSeq(s, 6, 7)) /\ AllAscii(SubSeq(s, 9, 10))
       /\ ValidDate(IntOf(SubSeq(s, 1, 4)), IntOf(SubSeq(s, 6, 7)), IntOf(SubSeq(s, 9, 10)))
    THEN Return(<<IntOf(SubSeq(s, 1, 4)), IntOf(SubSeq(s, 6, 7)), IntOf(SubSeq(s, 9, 10))>>)
    ELSE Raise("ValueError", "Invalid isoformat string")

\* An optional str argument: None, or the str s
NoneArg == [none |-> TRUE, s |-> <<>>]
StrArg(s) == [none |-> FALSE, s |-> s]

\* bool(x) of an optional str
Truthy(arg) == ~arg.none /\ arg.s # <<>>

\* Birthday.birthday setter on a Birthday whose _value is old:
\* [value: the _value afterwards, res: the outcome]
BirthdaySetter(old, new_value) ==
    IF Truthy(new_value)
    THEN IF FromIsoFormat(new_value.s).kind = "raise"
         THEN [value |-> old,
               res |-> Raise("ValueError", "Invalid birthday format. Use YYYY-MM-DD.")]
         ELSE [value |-> FromIsoFormat(new_value.s).val, res |-> ReturnNone]
    ELSE [value |-> old, res |-> ReturnNone]

\* Birthday.__init__
BirthdayInit(value) == BirthdaySetter(NoDate, value)

\* bool(b) of a Birthday instance: the class defines neither __bool__ nor
\* __len__, so every instance is true
BirthdayObjectTruth(value) == TRUE

\* date.replace(year=y)
ReplaceYear(d, y) ==
    IF ValidDate(y, d[2], d[3])
    THEN Return(<<y, d[2], d[3]>>)
    ELSE Raise("ValueError", "day is out of range for month")

\* date.toordinal()
RECURSIVE DaysBeforeMonth(_, _)
DaysBeforeMonth(y, m) == IF m = 1 THEN 0 ELSE DaysBeforeMonth(y, m - 1) + DaysInMonth(y, m - 1)

DaysBeforeYear(y) == (y - 1) * 365 + ((y - 1) \div 4) - ((y - 1) \div 100) + ((y - 1) \div 400)

ToOrdinal(d) == DaysBeforeYear(d[1]) + DaysBeforeMonth(d[1], d[2]) + d[3]

\* d1 > d2 on dates
DateGreater(d1, d2) == ToOrdinal(d1) > ToOrdinal(d2)

----------------------------------------------------------------------------
(* Record: [name, phone_numbers, birthday], birthday the Birthday's _value *)

\* Record.__init__(name, birthday): [rec, res]
RecordInit(name, birthday) ==
    [rec |-> [name |-> name, phone_numbers |-> <<>>,
              birthday |-> BirthdayInit(birthday).value],
     res |-> BirthdayInit(birthday).res]

\* Record.add_phone(phone): [rec, res]
add_phone(rec, phone) ==
    IF PhoneSetter(phone).kind = "raise"
    THEN [rec |-> rec, res |-> PhoneSetter(phone)]
    ELSE [rec |-> [rec EXCEPT !.phone_numbers = Append(@, PhoneSetter(phone).val)],
          res |-> ReturnNone]

\* filter(pred, seq) for the predicate "equal to v" / "different from v"
RECURSIVE FilterNe(_, _)
FilterNe(seq, v) ==
    IF seq = <<>> THEN <<>>
    ELSE (IF Head(seq) # v THEN <<Head(seq)>> ELSE <<>>) \o FilterNe(Tail(seq), v)

\* Positions of the phones equal to v, ascending
Matches(seq, v) == {i \in 1..Len(seq) : seq[i] = v}

FirstMatch(seq, v) == CHOOSE i \in Matches(seq, v) : \A j \in Matches(seq, v) : i <= j

\* Record.remove_phone(phone_to_remove): [rec, res]
remove_phone(rec, phone_to_remove) ==
    [rec |-> [rec EXCEPT !.phone_numbers = FilterNe(@, phone_to_remove)],
     res |-> ReturnNone]

\* Record.edit_phone(old_phone, new_phone): [rec, res]
edit_phone_all(rec, old_phone, new_phone) ==
    IF Matches(rec.phone_numbers, old_phone) # {}
    THEN IF PhoneSetter(new_phone).kind = "raise"
         THEN [rec |-> rec, res |-> PhoneSetter(new_phone)]
         ELSE [rec |-> [rec EXCEPT !.phone_numbers =
                           [i \in 1..Len(@) |-> IF @[i] = old_phone
                                                THEN PhoneSetter(new_phone).val
                                                ELSE @[i]]],
               res |-> ReturnNone]
    ELSE [rec |-> rec, res |-> Raise("ValueError", "Phone number not found")]

edit_phone(rec, old_phone, new_phone) ==
    IF Matches(rec.phone_numbers, old_phone) # {}
    THEN IF PhoneSetter(new_phone).kind = "raise"
         THEN [rec |-> rec, res |-> PhoneSetter(new_phone)]
         ELSE [rec |-> [rec EXCEPT !.phone_numbers[FirstMatch(rec.phone_numbers, old_phone)] =
                                       PhoneSetter(new_phone).val],
               res |-> ReturnNone]
    ELSE [rec |-> rec, res |-> Raise("ValueError", "Phone number not found")]

\* Record.find_phone(phone_to_find): the first matching Phone, or None
find_phone(rec, phone_to_find) ==
    IF Matches(rec.phone_numbers, phone_to_find) # {}
    THEN Return(rec.phone_numbers[FirstMatch(rec.phone_numbers, phone_to_find)])
    ELSE ReturnNone

\* Record.days_to_birthday() when date.today() is tday
days_to_birthday(rec, tday) ==
    IF ~BirthdayObjectTruth(rec.birthday)
    THEN ReturnNone
    ELSE IF rec.birthday = NoDate
    THEN Raise("AttributeError", "'NoneType' object has no attribute 'replace'")
    ELSE IF ReplaceYear(rec.birthday, tday[1]).kind = "raise"
    THEN ReplaceYear(rec.birthday, tday[1])
    ELSE IF DateGreater(tday, ReplaceYear(rec.birthday, tday[1]).val)
    THEN IF ReplaceYear(ReplaceYear(rec.birthday, tday[1]).val, tday[1] + 1).kind = "raise"
         THEN ReplaceYear(ReplaceYear(rec.birthday, tday[1]).val, tday[1] + 1)
         ELSE Return(ToOrdinal(ReplaceYear(ReplaceYear(rec.birthday, tday[1]).val,
                                           tday[1] + 1).val) - ToOrdinal(tday))
    ELSE Return(ToOrdinal(ReplaceYear(rec.birthday, tday[1]).val) - ToOrdinal(tday))

----------------------------------------------------------------------------
(* AddressBook: the dict's records in insertion order, keys unique         *)

EmptyBook == <<>>

Keys(book) == {book[i].name : i \in 1..Len(book)}

IndexOf(book, name) == CHOOSE i \in 1..Len(book) : book[i].name = name

\* AddressBook.add_record(record): dict item assignment
add_record(book, rec) ==
    IF rec.name \in Keys(book)
    THEN [book EXCEPT ![IndexOf(book, rec.name)] = rec]
    ELSE Append(book, rec)

\* AddressBook.find(name_value)
find(book, name_value) ==
    IF name_value \in Keys(book) THEN Return(book[IndexOf(book, name_value)]) ELSE ReturnNone

\* AddressBook.delete(name)
delete(book, name) ==
    IF name \in Keys(book)
    THEN SubSeq(book, 1, IndexOf(book, name) - 1) \o SubSeq(book, IndexOf(book, name) + 1, Len(book))
    ELSE book

\* range(start, stop, step) as a sequence; step = 0 is the caller's ValueError
RECURSIVE PyRange(_, _, _)
PyRange(start, stop, step) ==
    IF step > 0
    THEN (IF start < stop THEN <<start>> \o PyRange(start + step, stop, step) ELSE <<>>)
    ELSE (IF start > stop THEN <<start>> \o PyRange(start + step, stop, step) ELSE <<>>)

Min(a, b) == IF a < b THEN a ELSE b

\* list(values)[i:j] for 0 <= i <= j
Slice(seq, i, j) == SubSeq(seq, i + 1, Min(j, Len(seq)))

\* list(AddressBook.iterator(n)): the batches the generator yields, or the
\* ValueError range() raises when the generator is first advanced
iterator_overlap(book, n) ==
    IF n = 0
    THEN Raise("ValueError", "range() arg 3 must not be zero")
    ELSE Return([b \in 1..Len(PyRange(0, Len(book), n)) |->
                    Slice(book, PyRange(0, Len(book), n)[b], PyRange(0, Len(book), n)[b] + n + 1)])

iterator(book, n) ==
    IF n = 0
    THEN Raise("ValueError", "range() arg 3 must not be zero")
    ELSE Return([b \in 1..Len(PyRange(0, Len(book), n)) |->
                    Slice(book, PyRange(0, Len(book), n)[b], PyRange(0, Len(book), n)[b] + n)])

\* AddressBook.save(): pickle.dump of the whole book into STORAGE_FILE
save(book) == [exists |-> TRUE, book |-> book]

\* AddressBook.from_storage()
from_storage(file) == IF ~file.exists THEN EmptyBook ELSE file.book

NoFile == [exists |-> FALSE, book |-> EmptyBook]

----------------------------------------------------------------------------
(* Display lines of find / show all, and list.sort() on them               *)

ReturnFmt(m, v) == [kind |-> "return", exc |-> "", msg |-> m, isNone |-> FALSE, val |-> v]

\* The decimal digits of n, zero-padded to width w (format spec 0wd)
RECURSIVE ZeroPad(_, _)
ZeroPad(n, w) == IF w = 0 THEN <<>> ELSE ZeroPad(n \div 10, w - 1) \o <<AsciiDigits[(n % 10) + 1]>>

\* date.isoformat()
IsoFormat(d) == ZeroPad(d[1], 4) \o <<"-">> \o ZeroPad(d[2], 2) \o <<"-">> \o ZeroPad(d[3], 2)

\* f"{name:20}": left-aligned in a field of 20
NameWidth == 20

Pad(s, w) == IF Len(s) >= w THEN s ELSE s \o Repeat(" ", w - Len(s))

\* The line find_contacts and show_all build for one record
FormatLine(name, rec) ==
    Pad(name, NameWidth)
    \o <<" ","B","i","r","t","h","d","a","y",":"," ">>
    \o (IF rec.birthday # NoDate THEN IsoFormat(rec.birthday) ELSE Repeat("-", 10))
    \o Repeat(" ", 8)
    \o Join(rec.phone_numbers, <<",", " ">>)

\* Code point order of the characters that occur
CodeOrder == <<" ", ",", "-">> \o AsciiDigits \o <<":", ";">> \o UpperLetters
             \o LowerLetters \o <<"U+00B2">>

Ord(c) == CHOOSE i \in 1..Len(CodeOrder) : CodeOrder[i] = c

\* a < b on str
RECURSIVE StrLess(_, _)
StrLess(a, b) ==
    IF b = <<>> THEN FALSE
    ELSE IF a = <<>> THEN TRUE
    ELSE IF Head(a) # Head(b) THEN Ord(Head(a)) < Ord(Head(b))
    ELSE StrLess(Tail(a), Tail(b))

\* list.sort() (stable)
RECURSIVE Insert(_, _)
Insert(sorted, x) ==
    IF sorted = <<>> THEN <<x>>
    ELSE IF StrLess(x, Head(sorted)) THEN <<x>> \o sorted
    ELSE <<Head(sorted)>> \o Insert(Tail(sorted), x)

RECURSIVE Sort(_)
Sort(lines) == IF lines = <<>> THEN <<>> ELSE Insert(Sort(SubSeq(lines, 1, Len(lines) - 1)), lines[Len(lines)])

----------------------------------------------------------------------------
(* input_error and the command handlers: each handler maps the book and    *)
(* the command line to [book: the book afterwards, res: what it returns]   *)

\* Exception classes that derive from Exception
ExceptionClasses == {"KeyError", "ValueError", "IndexError", "AttributeError",
                     "MissingNameError", "InvalidBirthdayFormatError"}

\* The wrapper of input_error applied to the outcome of the wrapped function
input_error_no_catch_all(res) ==
    IF res.kind = "return" THEN res
    ELSE IF res.exc = "KeyError" THEN ReturnMsg("Enter user name")
    ELSE IF res.exc = "ValueError" THEN ReturnMsg(res.msg)
    ELSE IF res.exc = "MissingNameError" THEN ReturnMsg("Name is missing. Please provide a name.")
    ELSE IF res.exc = "InvalidBirthdayFormatError"
    THEN ReturnMsg("Invalid birthday format. Use YYYY-MM-DD.")
    ELSE res

input_error(res) ==
    IF res.kind = "return" THEN res
    ELSE IF res.exc = "KeyError" THEN ReturnMsg("Enter user name")
    ELSE IF res.exc = "ValueError" THEN ReturnMsg(res.msg)
    ELSE IF res.exc = "MissingNameError" THEN ReturnMsg("Name is missing. Please provide a name.")
    ELSE IF res.exc = "InvalidBirthdayFormatError"
    THEN ReturnMsg("Invalid birthday format. Use YYYY-MM-DD.")
    ELSE IF res.exc \in ExceptionClasses THEN ReturnMsg("Invalid command. Please try again.")
    ELSE res

\* add_contact without the decorator
add_contact_no_check(book, command) ==
    LET parts == Split(command, -1) IN
    IF Len(parts) < 3 THEN [book |-> book, res |-> Raise("IndexError", "list index out of range")]
    ELSE LET name == parts[2]
             phone == parts[3]
             birthday == IF Len(parts) > 3 THEN StrArg(parts[4]) ELSE NoneArg
             made == RecordInit(name, birthday)
             withPhone == add_phone(made.rec, phone)
         IN IF name = <<>> THEN [book |-> book, res |-> Raise("MissingNameError", "")]
            ELSE IF made.res.kind = "raise" THEN [book |-> book, res |-> made.res]
            ELSE IF withPhone.res.kind = "raise" THEN [book |-> book, res |-> withPhone.res]
            ELSE [book |-> add_record(book, withPhone.rec),
                  res |-> ReturnFmt("Added {name} with phone number {phone}", <<name, phone>>)]

add_contact_body(book, command) ==
    LET parts == Split(command, -1) IN
    IF Len(parts) < 3 THEN [book |-> book, res |-> Raise("IndexError", "list index out of range")]
    ELSE LET name == parts[2]
             phone == parts[3]
             birthday == IF Len(parts) > 3 THEN StrArg(parts[4]) ELSE NoneArg
             made == RecordInit(name, birthday)
             withPhone == add_phone(made.rec, phone)
         IN IF name = <<>> THEN [book |-> book, res |-> Raise("MissingNameError", "")]
            ELSE IF name \in Keys(book)
            THEN [book |-> book,
                  res |-> ReturnFmt("Contact with name {name} already exists.", <<name>>)]
            ELSE IF made.res.kind = "raise" THEN [book |-> book, res |-> made.res]
            ELSE IF withPhone.res.kind = "raise" THEN [book |-> book, res |-> withPhone.res]
            ELSE [book |-> add_record(book, withPhone.rec),
                  res |-> ReturnFmt("Added {name} with phone number {phone}", <<name, phone>>)]

add_contact(book, command) ==
    LET out == add_contact_body(book, command)
    IN [book |-> out.book, res |-> input_error(out.res)]

\* change_contact without the decorator
change_contact_body(book, command) ==
    LET parts == Split(command, 3) IN
    IF Len(parts) < 3 THEN [book |-> book, res |-> Raise("IndexError", "list index out of range")]
    ELSE LET name == parts[2]
             phone == parts[3]
             birthday == IF Len(parts) > 3 THEN StrArg(parts[4]) ELSE NoneArg
         IN IF name \notin Keys(book)
            THEN [book |-> book,
                  res |-> ReturnFmt("Contact with name {name} does not exist. Use \"add\" to create a new contact.",
                                    <<name>>)]
            ELSE LET i == IndexOf(book, name)
                     newPhone == PhoneSetter(phone)
                     phoned == [book EXCEPT ![i].phone_numbers = <<newPhone.val>>]
                     set == BirthdaySetter(book[i].birthday, birthday)
                 IN IF newPhone.kind = "raise" THEN [book |-> book, res |-> newPhone]
                    ELSE IF set.res.kind = "raise" THEN [book |-> phoned, res |-> set.res]
                    ELSE [book |-> [phoned EXCEPT ![i].birthday = set.value],
                          res |-> ReturnFmt("Changed phone number for {name} to {phone}",
                                            <<name, phone>>)]

change_contact(book, command) ==
    LET out == change_contact_body(book, command)
    IN [book |-> out.book, res |-> input_error(out.res)]

\* get_phone without the decorator
get_phone_body(book, command) ==
    LET parts == Split(command, 1) IN
    IF Len(parts) < 2 THEN Raise("IndexError", "list index out of range")
    ELSE IF ~find(book, parts[2]).isNone
    THEN ReturnFmt("Phone number for {name}: {phones}",
                   <<parts[2], Join(find(book, parts[2]).val.phone_numbers, <<",", " ">>)>>)
    ELSE ReturnFmt("No contact found for {name}", <<parts[2]>>)

get_phone(book, command) == input_error(get_phone_body(book, command))

\* The records of book whose heap text contains the query, as display lines
RECURSIVE MatchLines(_, _, _)
MatchLines(book, all, query) ==
    IF all = <<>> THEN <<>>
    ELSE (IF Contains(Lower(Head(all).name \o <<" ">> \o Join(Head(all).phone_numbers, <<";">>)),
                      Lower(query))
          THEN <<FormatLine(Head(all).name, find(book, Head(all).name).val)>>
          ELSE <<>>)
         \o MatchLines(book, Tail(all), query)

\* find_contacts without the decorator
find_contacts_body(book, command) ==
    LET parts == Split(command, 1) IN
    IF Len(parts) < 2 THEN Raise("IndexError", "list index out of range")
    ELSE IF Strip(parts[2]) = <<>> THEN ReturnMsg("Search query is too small")
    ELSE IF MatchLines(book, book, Strip(parts[2])) # <<>>
    THEN Return(MatchLines(book, book, Strip(parts[2])))
    ELSE ReturnMsg("No contacts found that match your query")

find_contacts(book, command) == input_error(find_contacts_body(book, command))

\* show_all
show_all(book) ==
    input_error(IF book # EmptyBook
                THEN Return([i \in 1..Len(book) |-> FormatLine(book[i].name, book[i])])
                ELSE ReturnMsg("You have no contacts"))

----------------------------------------------------------------------------
(* The main loop                                                           *)

\* The branch of main()'s if / elif chain that user_input takes
Dispatch(user_input) ==
    IF user_input = W_hello THEN "hello"
    ELSE IF StartsWith(Lower(user_input), W_add) THEN "add"
    ELSE IF StartsWith(Lower(user_input), W_change) THEN "change"
    ELSE IF StartsWith(Lower(user_input), W_phone) THEN "phone"
    ELSE IF StartsWith(Lower(user_input), W_find) THEN "find"
    ELSE IF Lower(user_input) = Join(<<W_show, W_all>>, SP) THEN "show all"
    ELSE IF Lower(user_input) \in Range(ExitWords) THEN "exit"
    ELSE IF Strip(Lower(user_input)) = <<>> THEN "blank"
    ELSE "invalid"

\* The input lines that take each branch
LinesOf(branch) == {line \in Lines : Dispatch(line) = branch}

HelloInput == LinesOf("hello")
AddInput == LinesOf("add")
ChangeInput == LinesOf("change")
PhoneInput == LinesOf("phone")
FindInput == LinesOf("find")
ShowAllInput == LinesOf("show all")
ExitInput == LinesOf("exit")
BlankInput == LinesOf("blank")
InvalidInput == LinesOf("invalid")

\* bye(): the storage file after contacts.save()
bye_no_save(book, file) == file

bye(book, file) == save(book)

\* What main() does with a handler's outcome: an exception that left the
\* handler leaves main() too, and the __main__ block catches only
\* KeyboardInterrupt, SystemExit and EOFError
StateAfter(res) == IF res.kind = "raise" THEN "CRASHED" ELSE "RUNNING"

Start == [op |-> "start", args |-> <<>>, before |-> EmptyBook, res |-> ReturnNone,
          printed |-> <<>>]

Observe(op, args, before, res, printed) ==
    [op |-> op, args |-> args, before |-> before, res |-> res, printed |-> printed]

\* The lines main() prints for a handler's outcome
Printed(res, sorted) ==
    IF res.kind = "raise" THEN <<>>
    ELSE IF res.msg # "" THEN <<res.msg>>
    ELSE IF sorted THEN Sort(res.val)
    ELSE res.val

Hello ==
    /\ state = "RUNNING"
    /\ \E line \in HelloInput :
          /\ last' = Observe("hello", <<line>>, contacts, ReturnMsg("How can I help you?"),
                             <<"How can I help you?">>)
    /\ UNCHANGED <<state, contacts, storage, record>>

AddContact ==
    /\ state = "RUNNING"
    /\ \E line \in AddInput :
          LET out == add_contact(contacts, line) IN
          /\ contacts' = out.book
          /\ state' = StateAfter(out.res)
          /\ last' = Observe("add", <<line>>, contacts, out.res, Printed(out.res, FALSE))
    /\ UNCHANGED <<storage, record>>

ChangeContact ==
    /\ state = "RUNNING"
    /\ \E line \in ChangeInput :
          LET out == change_contact(contacts, line) IN
          /\ contacts' = out.book
          /\ state' = StateAfter(out.res)
          /\ last' = Observe("change", <<line>>, contacts, out.res, Printed(out.res, FALSE))
    /\ UNCHANGED <<storage, record>>

GetPhone ==
    /\ state = "RUNNING"
    /\ \E line \in PhoneInput :
          LET res == get_phone(contacts, line) IN
          /\ state' = StateAfter(res)
          /\ last' = Observe("phone", <<line>>, contacts, res, Printed(res, FALSE))
    /\ UNCHANGED <<contacts, storage, record>>

FindContacts ==
    /\ state = "RUNNING"
    /\ \E line \in FindInput :
          LET res == find_contacts(contacts, line) IN
          /\ state' = StateAfter(res)
          /\ last' = Observe("find", <<line>>, contacts, res, Printed(res, TRUE))
    /\ UNCHANGED <<contacts, storage, record>>

ShowAll ==
    /\ state = "RUNNING"
    /\ \E line \in ShowAllInput :
          LET res == show_all(contacts) IN
          /\ state' = StateAfter(res)
          /\ last' = Observe("show all", <<line>>, contacts, res, Printed(res, TRUE))
    /\ UNCHANGED <<contacts, storage, record>>

Exit ==
    /\ state = "RUNNING"
    /\ \E line \in ExitInput :
          /\ storage' = bye(contacts, storage)
          /\ state' = "TERMINATED"
          /\ last' = Observe("exit", <<line>>, contacts, ReturnNone, <<"Good bye!">>)
    /\ UNCHANGED <<contacts, record>>

\* KeyboardInterrupt or EOFError out of input(), caught by the __main__ block
Interrupt ==
    /\ state = "RUNNING"
    /\ storage' = bye(contacts, storage)
    /\ state' = "TERMINATED"
    /\ last' = Observe("interrupt", <<>>, contacts, ReturnNone, <<"Good bye!">>)
    /\ UNCHANGED <<contacts, record>>

Blank ==
    /\ state = "RUNNING"
    /\ \E line \in BlankInput :
          /\ last' = Observe("blank", <<line>>, contacts, ReturnNone, <<>>)
    /\ UNCHANGED <<state, contacts, storage, record>>

Invalid ==
    /\ state = "RUNNING"
    /\ \E line \in InvalidInput :
          /\ last' = Observe("invalid", <<line>>, contacts,
                             ReturnMsg("Invalid command. Please try again."),
                             <<"Invalid command. Please try again.">>)
    /\ UNCHANGED <<state, contacts, storage, record>>

\* A record as add_contact stores it
Stored(name, phone, birthday) ==
    add_phone(RecordInit(name, birthday).rec, phone).rec

NoRecord == [name |-> <<>>, phone_numbers |-> <<>>, birthday |-> NoDate]

\* The storage file when the program starts: absent, or what an earlier run saved
InitialFiles == {NoFile, save(<<Stored(N_al, P_1, StrArg(B_1990))>>)}

Init ==
    /\ state = "RUNNING"
    /\ storage \in InitialFiles
    /\ contacts = from_storage(storage)
    /\ last = Start
    /\ record = NoRecord

Next ==
    \/ Hello
    \/ AddContact
    \/ ChangeContact
    \/ GetPhone
    \/ FindContacts
    \/ ShowAll
    \/ Exit
    \/ Interrupt
    \/ Blank
    \/ Invalid

Spec == Init /\ [][Next]_vars

----------------------------------------------------------------------------
(* Record's methods called directly on one Record                          *)

RecordPhones == {P_1, P_2, P_short, P_long, P_alpha}

\* Values of date.today()
Todays == {<<2023, 4, 30>>, <<2023, 5, 1>>, <<2023, 5, 2>>, <<2023, 3, 1>>,
           <<2024, 2, 29>>, <<2024, 3, 1>>}

InitRecord ==
    /\ state = "RUNNING"
    /\ storage = NoFile
    /\ contacts = EmptyBook
    /\ last = Start
    /\ record \in {RecordInit(N_al, b).rec : b \in {NoneArg, StrArg(<<>>), StrArg(B_1990), StrArg(B_leap)}}

AddPhone ==
    /\ Len(record.phone_numbers) < MaxPhones
    /\ \E phone \in RecordPhones :
          LET out == add_phone(record, phone) IN
          /\ record' = out.rec
          /\ last' = Observe("add_phone", <<phone>>, record, out.res, <<>>)
    /\ UNCHANGED <<state, contacts, storage>>

RemovePhone ==
    /\ \E phone \in RecordPhones :
          LET out == remove_phone(record, phone) IN
          /\ record' = out.rec
          /\ last' = Observe("remove_phone", <<phone>>, record, out.res, <<>>)
    /\ UNCHANGED <<state, contacts, storage>>

EditPhone ==
    /\ \E old_phone \in RecordPhones, new_phone \in RecordPhones :
          LET out == edit_phone(record, old_phone, new_phone) IN
          /\ record' = out.rec
          /\ last' = Observe("edit_phone", <<old_phone, new_phone>>, record, out.res, <<>>)
    /\ UNCHANGED <<state, contacts, storage>>

FindPhone ==
    /\ \E phone \in RecordPhones :
          last' = Observe("find_phone", <<phone>>, record, find_phone(record, phone), <<>>)
    /\ UNCHANGED <<state, contacts, storage, record>>

DaysToBirthday ==
    /\ \E tday \in Todays :
          last' = Observe("days_to_birthday", <<tday>>, record, days_to_birthday(record, tday), <<>>)
    /\ UNCHANGED <<state, contacts, storage, record>>

NextRecord ==
    \/ AddPhone
    \/ RemovePhone
    \/ EditPhone
    \/ FindPhone
    \/ DaysToBirthday

SpecRecord == InitRecord /\ [][NextRecord]_vars

----------------------------------------------------------------------------
(* AddressBook's methods called directly on one AddressBook                *)

BookNames == {N_al, N_bo, N_cy, N_di}

BookRecords == {Stored(n, p, NoneArg) : n \in BookNames, p \in {P_1, P_2}}

PageSizes == (-1)..MaxPageSize

InitBook ==
    /\ state = "RUNNING"
    /\ storage = NoFile
    /\ contacts = EmptyBook
    /\ last = Start
    /\ record = NoRecord

AddRecord ==
    /\ \E rec \in BookRecords :
          /\ rec.name \in Keys(contacts) \/ Len(contacts) < MaxRecords
          /\ contacts' = add_record(contacts, rec)
          /\ last' = Observe("add_record", <<rec>>, contacts, ReturnNone, <<>>)
    /\ UNCHANGED <<state, storage, record>>

FindRecord ==
    /\ \E name \in BookNames :
          last' = Observe("find", <<name>>, contacts, find(contacts, name), <<>>)
    /\ UNCHANGED <<state, contacts, storage, record>>

Delete ==
    /\ \E name \in BookNames :
          /\ contacts' = delete(contacts, name)
          /\ last' = Observe("delete", <<name>>, contacts, ReturnNone, <<>>)
    /\ UNCHANGED <<state, storage, record>>

Iterate ==
    /\ \E n \in PageSizes :
          last' = Observe("iterator", <<n>>, contacts, iterator(contacts, n), <<>>)
    /\ UNCHANGED <<state, contacts, storage, record>>

NextBook ==
    \/ AddRecord
    \/ FindRecord
    \/ Delete
    \/ Iterate

SpecBook == InitBook /\ [][NextBook]_vars

----------------------------------------------------------------------------
(* Properties                                                              *)

\* A string of exactly 10 decimal digits 0-9
IsTenDecimalDigits(p) == Len(p) = 10 /\ \A i \in 1..Len(p) : p[i] \in Range(AsciiDigits)

\* The command line of the last command, split as its handler splits it
LastParts(maxsplit) == Split(last.args[1], maxsplit)

ChangedMsg == "Changed phone number for {name} to {phone}"
ExistsMsg == "Contact with name {name} already exists."

\* C1: in every state reached by add / change commands every Phone of every
\* Record of the AddressBook is a string of exactly 10 decimal digits.
C1_StoredPhonesAreTenDecimalDigits ==
    \A i \in 1..Len(contacts) :
        \A j \in 1..Len(contacts[i].phone_numbers) :
            IsTenDecimalDigits(contacts[i].phone_numbers[j])

\* C2: after a change command that returned its confirmation, the contact's
\* phone list is exactly the new phone and its birthday is the command's
\* birthday argument: none when the argument is omitted.
C2_ChangeOverwritesPhonesAndBirthday ==
    (last.op = "change" /\ last.res.kind = "return" /\ last.res.msg = ChangedMsg)
    => LET parts == LastParts(3)
           rec == contacts[IndexOf(contacts, parts[2])]
       IN /\ rec.phone_numbers = <<parts[3]>>
          /\ Len(parts) <= 3 => rec.birthday = NoDate
          /\ (Len(parts) > 3 /\ parts[4] # <<>>) => rec.birthday = FromIsoFormat(parts[4]).val

\* C3: an add command with a name and a phone whose name is already a key of
\* the AddressBook returns the "already exists" message and leaves the
\* AddressBook as it was, whatever phone and birthday it carries.
C3_AddExistingNameLeavesBook ==
    (last.op = "add" /\ Len(LastParts(-1)) >= 3 /\ LastParts(-1)[2] \in Keys(last.before))
    => /\ contacts = last.before
       /\ last.res.kind = "return"
       /\ last.res.msg = ExistsMsg
       /\ last.res.val = <<LastParts(-1)[2]>>

\* C3 witness: the conflict was reported for an add that carried an invalid phone
C3_Witness ==
    /\ last.op = "add"
    /\ Len(LastParts(-1)) >= 3
    /\ LastParts(-1)[2] \in Keys(last.before)
    /\ PhoneSetter(LastParts(-1)[3]).kind = "raise"
    /\ last.res.msg = ExistsMsg

\* C4: the loop starts in RUNNING, every exit command and every interrupt
\* terminates it, and in TERMINATED the storage file holds exactly the
\* in-memory AddressBook, saved by the step that terminated.
C4_TerminatedAfterSave ==
    /\ last.op = "start" => state = "RUNNING"
    /\ last.op \in {"exit", "interrupt"} => state = "TERMINATED"
    /\ state = "TERMINATED" =>
          /\ last.op \in {"exit", "interrupt"}
          /\ contacts = last.before
          /\ storage.exists
          /\ storage.book = contacts

\* C4 witness: an upper-case exit command terminated a run whose book differs
\* from every file the run could have started from
C4_Witness ==
    /\ state = "TERMINATED"
    /\ last.op = "exit"
    /\ last.args[1] = Caps(W_bye)
    /\ storage \notin InitialFiles
    /\ storage.book = contacts

\* C5: for every input line that is not an exit command the handler returns
\* (a message or a list of lines) instead of raising and the loop stays in
\* RUNNING; no exception leaves a handler.
C5_HandlersReturnAndLoopRuns ==
    /\ state # "CRASHED"
    /\ last.op \notin {"start", "exit", "interrupt"} =>
          /\ state = "RUNNING"
          /\ last.res.kind = "return"

\* C5 witness: commands with missing tokens were answered with the generic message
C5_Witness ==
    /\ state = "RUNNING"
    /\ last.op \in {"add", "change", "phone", "find"}
    /\ Len(LastParts(-1)) < 3
    /\ last.res.kind = "return"
    /\ last.res.msg = "Invalid command. Please try again."

RECURSIVE Flatten(_)
Flatten(batches) == IF batches = <<>> THEN <<>> ELSE Head(batches) \o Flatten(Tail(batches))

\* C6: for a book of k records and a page size n > 0 the iterator yields
\* ceil(k/n) batches, all but the last of size n, the last of size k mod n (n
\* when n divides k), whose concatenation is the records in order, each once.
C6_IteratorBatches ==
    (last.op = "iterator" /\ last.args[1] > 0)
    => LET n == last.args[1]
           k == Len(contacts)
           batches == last.res.val
       IN /\ last.res.kind = "return"
          /\ Len(batches) = (k \div n) + (IF k % n = 0 THEN 0 ELSE 1)
          /\ \A b \in 1..(Len(batches) - 1) : Len(batches[b]) = n
          /\ k > 0 => Len(batches[Len(batches)]) = (IF k % n = 0 THEN n ELSE k % n)
          /\ k = 0 => batches = <<>>
          /\ Flatten(batches) = contacts
          /\ \A i, j \in 1..Len(Flatten(batches)) :
                Flatten(batches)[i].name = Flatten(batches)[j].name => i = j

\* C6 witness: three records were paged by two, the last batch being short
C6_Witness ==
    /\ last.op = "iterator"
    /\ last.args[1] = 2
    /\ Len(contacts) = 3
    /\ Len(last.res.val) = 2
    /\ Len(last.res.val[2]) = 1

\* C7: the iterator with a page size <= 0 fails with an error for every
\* AddressBook; it never returns a sequence of batches.
C7_NonPositivePageSizeFails ==
    (last.op = "iterator" /\ last.args[1] <= 0) => last.res.kind = "raise"

\* C8: when edit_phone fails (no phone equals the old value, or the new value
\* is rejected) the phone list is what it was; when it succeeds only the first
\* phone equal to the old value is replaced and every other phone keeps its
\* value and position.
C8_EditPhoneFrame ==
    last.op = "edit_phone"
    => LET old == last.args[1]
           new == last.args[2]
           before == last.before.phone_numbers
           after == record.phone_numbers
       IN /\ last.res.kind = "raise" => record = last.before
          /\ (\A i \in 1..Len(before) : before[i] # old) =>
                (last.res.kind = "raise" /\ last.res.msg = "Phone number not found")
          /\ Len(new) # 10 => last.res.kind = "raise"
          /\ last.res.kind = "return" =>
                /\ Len(after) = Len(before)
                /\ \E i \in 1..Len(before) :
                      /\ before[i] = old
                      /\ \A j \in 1..(i - 1) : before[j] # old
                      /\ after[i] = new
                      /\ \A j \in 1..Len(before) : j # i => after[j] = before[j]

\* C8 witness: an edit of a phone the record holds failed on an invalid new value
C8_Witness ==
    /\ last.op = "edit_phone"
    /\ last.res.kind = "raise"
    /\ \E i \in 1..Len(last.before.phone_numbers) : last.before.phone_numbers[i] = last.args[1]
    /\ Len(last.before.phone_numbers) >= 2
    /\ record = last.before

\* C9: for a Record with no birthday, days_to_birthday returns None and does
\* not raise, whatever the current date.
C9_NoBirthdayReturnsNone ==
    (last.op = "days_to_birthday" /\ last.before.birthday = NoDate)
    => (last.res.kind = "return" /\ last.res.isNone)

\* C10: a change command that does not return its confirmation message leaves
\* the whole AddressBook unchanged.
C10_FailedChangeLeavesBook ==
    (last.op = "change" /\ ~(last.res.kind = "return" /\ last.res.msg = ChangedMsg))
    => contacts = last.before

====
